---- MODULE Spec2Model ----
(***************************************************************************)
(* State-machine model of the shoppingsystem store: catalog and inventory  *)
(* (products/models.py, products/signals.py), cart (cart/models.py,        *)
(* cart/views.py, products/views.py) and orders (orders/models.py,         *)
(* orders/views.py, orders/admin.py).                                      *)
(*                                                                         *)
(* Money is kept in hundredths (DecimalField with decimal_places=2), so    *)
(* 100.00 is 10000.  Rows are records with the primary key in `id`; every  *)
(* table has its own AUTOINCREMENT counter in nextId.                      *)
(***************************************************************************)
EXTENDS Integers, Sequences, FiniteSets, TLC

\* ------------------------------------------------------------------ bounds
\* Largest quantity a CartItem row is allowed to reach in the model.
MaxQty == 3
\* Largest primary key handed out for CartItem rows.
MaxItemId == 3
\* Largest primary key handed out for Order rows.
MaxOrderId == 2
\* Largest primary key handed out for Inventory rows.
MaxInvId == 2
\* Largest Inventory.count.
MaxCount == 2
\* Largest stock increase_stock is let reach.
MaxStock == 4

Users == {1, 2}
Products == {1, 2}
\* Product ids a request may name; 3 is the id of no product.
ProductIds == {1, 2, 3}
\* Prices in hundredths: 0.01 (the validator's minimum), 50.00 and 100.00.
Prices == {1, 5000, 10000}
\* Quantities a request may carry (int(request.POST.get('quantity', 1))).
Quantities == {-1, 0, 1, 2, 3}
Methods == {"GET", "POST"}
\* (color, size) selections of a SKU, 0 standing for "none chosen / NULL".
Variants == {0, 1}

ORDER_STATUS_CHOICES == <<"pending", "paid", "shipped", "delivered", "cancelled">>
\* Values a status request may carry; "NONE" is a request without the field.
StatusInputs == {"pending", "paid", "shipped", "delivered", "cancelled", "refunded", "NONE"}
\* Shipping fields as submitted; "" is an empty or missing field.
ShippingInputs ==
    {<<"Ann", "13800000000", "1 Main St">>, <<"", "13800000000", "1 Main St">>,
     <<"Ann", "", "1 Main St">>, <<"Ann", "13800000000", "">>}

VARIABLES
    users,       \* User rows: the set of registered user ids
    product,     \* Product rows: [Products -> [exists, price, stock, status]]
    inventory,   \* Inventory rows: set of [id, product, count, is_active, variant]
    carts,       \* Cart rows: set of [id, user]
    cartItems,   \* CartItem rows: set of [id, cart, product, quantity]
    orders,      \* Order rows: set of [id, user, full_name, phone, address, total_price, status]
    orderItems,  \* OrderItem rows: set of [id, order, product, price, quantity]
    nextId,      \* next primary key per table
    co,          \* the create_order request in flight (stepwise specification)
    lastOp       \* the last request handled and its response

vars == <<users, product, inventory, carts, cartItems, orders, orderItems, nextId, co, lastOp>>

store == <<users, product, inventory, carts, cartItems, orders, orderItems>>

NoData == <<"", "", "">>

NoOp == [op |-> "none", user |-> 0, arg |-> 0, qty |-> 0, method |-> "", data |-> NoData,
         outcome |-> "none", ref |-> 0, signals |-> <<>>, list |-> <<>>]

CoIdle == [pc |-> "idle", user |-> 0, cart |-> 0, total |-> 0, order |-> 0,
           todo |-> <<>>, data |-> NoData, before |-> {}]

\* The request just handled (view, user, id argument, quantity, method, text
\* fields), its response (outcome, a number and a list of product ids the
\* response carries) and the signal receivers, in the order they ran, that
\* the model follows.
Response(op, u, arg, q, method, data, outcome, ref, sig, list) ==
    lastOp' = [op |-> op, user |-> u, arg |-> arg, qty |-> q, method |-> method,
               data |-> data, outcome |-> outcome, ref |-> ref, signals |-> sig,
               list |-> list]

RespondSignals(op, u, arg, q, method, data, outcome, ref, sig) ==
    Response(op, u, arg, q, method, data, outcome, ref, sig, <<>>)

RespondList(op, u, arg, q, outcome, list) ==
    Response(op, u, arg, q, "", NoData, outcome, Len(list), <<>>, list)

RespondTo(op, u, arg, q, method, data, outcome, ref) ==
    RespondSignals(op, u, arg, q, method, data, outcome, ref, <<>>)

Respond(op, u, arg, q, outcome, ref) == RespondTo(op, u, arg, q, "", NoData, outcome, ref)

\* ----------------------------------------------------------- pure helpers
RECURSIVE SumOver(_, _)
\* Sum of f[x] over the finite set S.
SumOver(f, S) ==
    IF S = {} THEN 0
    ELSE LET x == CHOOSE y \in S : TRUE IN f[x] + SumOver(f, S \ {x})

\* Rows of a set ordered by id descending (Meta.ordering = ['-added_at']).
RECURSIVE NewestFirst(_)
NewestFirst(S) ==
    IF S = {} THEN <<>>
    ELSE LET r == CHOOSE x \in S : \A y \in S : y.id <= x.id
         IN <<r>> \o NewestFirst(S \ {r})

\* Rows of a set ordered by id ascending (no Meta.ordering: primary-key order).
RECURSIVE OldestFirst(_)
OldestFirst(S) ==
    IF S = {} THEN <<>>
    ELSE LET r == CHOOSE x \in S : \A y \in S : y.id >= x.id
         IN <<r>> \o OldestFirst(S \ {r})

\* --------------------------------------------------------------- catalog
\* get_object_or_404(Product, id=product_id) finds a row.
Exists(p) == p \in Products /\ product[p].exists
\* get_object_or_404(Product, id=product_id, status='published') finds a row.
Published(p) == Exists(p) /\ product[p].status = "published"

\* ------------------------------------------------------------------ carts
HasCart(u) == \E c \in carts : c.user = u
CartOf(cs, u) == (CHOOSE c \in cs : c.user = u).id
ItemsOf(c) == {i \in cartItems : i.cart = c}
ItemsOfUser(u) == {i \in cartItems : \E c \in carts : c.user = u /\ c.id = i.cart}

\* Mutant of get_or_create_cart: a plain create(), no lookup first.
get_or_create_cart_insert(u) == carts \cup {[id |-> nextId.cart, user |-> u]}

\* Cart.objects.get_or_create(user=request.user): the Cart table afterwards.
get_or_create_cart(u) ==
    IF HasCart(u) THEN carts ELSE carts \cup {[id |-> nextId.cart, user |-> u]}

\* The rows CartItem.objects.get_or_create(cart=, product=) finds.
ItemFor(c, p) == {i \in cartItems : i.cart = c /\ i.product = p}

\* Quantity of the row after get_or_create and "if not created: quantity += q".
NewQuantity(c, p, q) ==
    IF ItemFor(c, p) = {} THEN q
    ELSE (CHOOSE i \in ItemFor(c, p) : TRUE).quantity + q

\* Mutant of cart_item_get_or_create: a plain create(), no lookup first.
cart_item_get_or_create_insert(c, p, q) ==
    cartItems \cup {[id |-> nextId.item, cart |-> c, product |-> p, quantity |-> q]}

\* The CartItem table after get_or_create / increment / save.
cart_item_get_or_create(c, p, q) ==
    IF ItemFor(c, p) = {}
    THEN cartItems \cup {[id |-> nextId.item, cart |-> c, product |-> p, quantity |-> q]}
    ELSE {IF i \in ItemFor(c, p) THEN [i EXCEPT !.quantity = @ + q] ELSE i : i \in cartItems}

\* PositiveIntegerField: the column's CHECK (quantity >= 0).
PositiveIntegerCheck(n) == n >= 0

\* Mutant of item_total_price: the unit price, the quantity forgotten.
item_total_price_unit(i) ==
    IF Exists(i.product) THEN product[i.product].price ELSE 0

\* CartItem.total_price(): quantity * product.price, 0.00 when that raises.
item_total_price(i) ==
    IF Exists(i.product) THEN i.quantity * product[i.product].price ELSE 0

RECURSIVE cart_total_loop(_, _)
\* The loop of Cart.total_price(): total += item.total_price() over the items.
cart_total_loop(items, total) ==
    IF items = <<>> THEN total
    ELSE cart_total_loop(Tail(items), total + item_total_price(Head(items)))

\* Cart.total_price() of the cart with id c.
cart_total_price(c) == cart_total_loop(NewestFirst(ItemsOf(c)), 0)

RECURSIVE item_count_loop(_, _)
item_count_loop(items, n) ==
    IF items = <<>> THEN n
    ELSE item_count_loop(Tail(items), n + Head(items).quantity)

\* Mutant of cart_item_count: the number of lines, not of units.
cart_item_count_lines(c) == Cardinality(ItemsOf(c))

\* Cart.item_count() of the cart with id c.
cart_item_count(c) == item_count_loop(NewestFirst(ItemsOf(c)), 0)


\* --------------------------------------------------------- cart requests
\* nextId after Cart.objects.get_or_create(user=u).
IdsAfterCart(u) == [nextId EXCEPT !.cart = IF HasCart(u) THEN @ ELSE @ + 1]

\* Mutant of InsufficientStock: an off-by-one stock check.
InsufficientStock_off_by_one(p, q) == q > product[p].stock + 1

\* "if quantity > product.stock" of add_to_cart.
InsufficientStock(p, q) == q > product[p].stock

\* Lines 56-66 of add_to_cart (and the same lines of the two product views):
\* get_or_create the row, "quantity += q" when it existed, save.  cs and ids
\* are the Cart table and the counters as get_or_create(user) left them.
\* An add that would pass the model's bounds is left out of the model.
AddItem(op, u, p, q, cs, ids, okOutcome) ==
    LET c == CartOf(cs, u) IN
    IF ~PositiveIntegerCheck(NewQuantity(c, p, q))
    THEN /\ carts' = cs
         /\ nextId' = ids
         /\ Respond(op, u, p, q, "IntegrityError", 0)
         /\ UNCHANGED <<users, product, inventory, cartItems, orders, orderItems, co>>
    ELSE /\ NewQuantity(c, p, q) <= MaxQty
         /\ ItemFor(c, p) = {} => nextId.item <= MaxItemId
         /\ carts' = cs
         /\ cartItems' = cart_item_get_or_create(c, p, q)
         /\ nextId' = [ids EXCEPT !.item = IF ItemFor(c, p) = {} THEN @ + 1 ELSE @]
         /\ Respond(op, u, p, q, okOutcome, NewQuantity(c, p, q))
         /\ UNCHANGED <<users, product, inventory, orders, orderItems, co>>

\* cart.views.cart_detail
cart_detail(u) ==
    /\ carts' = get_or_create_cart(u)
    /\ nextId' = IdsAfterCart(u)
    /\ Respond("cart_detail", u, 0, 0, "ok", cart_total_price(CartOf(carts', u)))
    /\ UNCHANGED <<users, product, inventory, cartItems, orders, orderItems, co>>

\* cart.views.add_to_cart
add_to_cart(u, p, q, method) ==
    IF method # "POST"
    THEN /\ Respond("add_to_cart", u, p, q, "not_post", 0)
         /\ UNCHANGED <<store, nextId, co>>
    ELSE IF ~Exists(p)
    THEN /\ Respond("add_to_cart", u, p, q, "404", 0)
         /\ UNCHANGED <<store, nextId, co>>
    ELSE IF InsufficientStock(p, q)
    THEN /\ carts' = get_or_create_cart(u)
         /\ nextId' = IdsAfterCart(u)
         /\ Respond("add_to_cart", u, p, q, "InsufficientStock", product[p].stock)
         /\ UNCHANGED <<users, product, inventory, cartItems, orders, orderItems, co>>
    ELSE AddItem("add_to_cart", u, p, q, get_or_create_cart(u), IdsAfterCart(u), "added")

\* The Inventory rows add_to_cart_from_detail's query finds: active ones of
\* the product with count >= quantity, of the chosen color/size when given.
inventory_query(p, q, v) ==
    {r \in inventory : /\ r.product = p
                       /\ r.count >= q
                       /\ r.is_active
                       /\ (v # 0 => r.variant = v)}

\* products.views.add_to_cart_from_detail
add_to_cart_from_detail(u, p, q, method, v) ==
    IF method # "POST"
    THEN /\ Respond("add_to_cart_from_detail", u, p, q, "not_post", 0)
         /\ UNCHANGED <<store, nextId, co>>
    ELSE IF ~Published(p)
    THEN /\ Respond("add_to_cart_from_detail", u, p, q, "404", 0)
         /\ UNCHANGED <<store, nextId, co>>
    ELSE IF q < 1
    THEN /\ Respond("add_to_cart_from_detail", u, p, q, "InvalidQuantity", 0)
         /\ UNCHANGED <<store, nextId, co>>
    ELSE IF inventory_query(p, q, v) = {}
    THEN /\ Respond("add_to_cart_from_detail", u, p, q, "VariantOutOfStock", 0)
         /\ UNCHANGED <<store, nextId, co>>
    ELSE AddItem("add_to_cart_from_detail", u, p, q, get_or_create_cart(u),
                 IdsAfterCart(u), "added")

\* products.views.quick_add_to_cart.  Its success path ends in
\* cart.get_item_count(), a method Cart does not have: the request ends in an
\* AttributeError after the row was saved.
quick_add_to_cart(u, p, q, method, ajax) ==
    IF method # "POST"
    THEN /\ Respond("quick_add_to_cart", u, p, q, "405", 0)
         /\ UNCHANGED <<store, nextId, co>>
    ELSE IF ~ajax
    THEN /\ Respond("quick_add_to_cart", u, p, q, "400", 0)
         /\ UNCHANGED <<store, nextId, co>>
    ELSE IF q < 1
    THEN /\ Respond("quick_add_to_cart", u, p, q, "InvalidQuantity", 0)
         /\ UNCHANGED <<store, nextId, co>>
    ELSE IF ~Published(p)
    THEN /\ Respond("quick_add_to_cart", u, p, q, "404", 0)
         /\ UNCHANGED <<store, nextId, co>>
    ELSE IF q > product[p].stock
    THEN /\ Respond("quick_add_to_cart", u, p, q, "InsufficientStock", product[p].stock)
         /\ UNCHANGED <<store, nextId, co>>
    ELSE AddItem("quick_add_to_cart", u, p, q, get_or_create_cart(u),
                 IdsAfterCart(u), "AttributeError")

\* Mutant of OwnItem: the row looked up by id alone.
OwnItem_any_user(u, id) == {i \in cartItems : i.id = id}

\* get_object_or_404(CartItem, id=item_id, cart__user=request.user)
OwnItem(u, id) == {i \in ItemsOfUser(u) : i.id = id}

\* cart.views.remove_from_cart
remove_from_cart(u, id) ==
    IF OwnItem(u, id) = {}
    THEN /\ Respond("remove_from_cart", u, id, 0, "404", 0)
         /\ UNCHANGED <<store, nextId, co>>
    ELSE /\ cartItems' = cartItems \ OwnItem(u, id)
         /\ Respond("remove_from_cart", u, id, 0, "removed", 0)
         /\ UNCHANGED <<users, product, inventory, carts, orders, orderItems, nextId, co>>

\* Mutant of QuantityNotPositive: only a negative quantity deletes.
QuantityNotPositive_negative_only(q) == q < 0

\* "if quantity <= 0" of update_cart_item.
QuantityNotPositive(q) == q <= 0

\* Mutant of set_quantity: the quantity added to the row's, as add_to_cart does.
set_quantity_adds(item, q) == [item EXCEPT !.quantity = @ + q]

\* "cart_item.quantity = quantity; cart_item.save()" of update_cart_item.
set_quantity(item, q) == [item EXCEPT !.quantity = q]

\* cart.views.update_cart_item; ajaxPost: a POST carrying X-Requested-With.
update_cart_item(u, id, q, ajaxPost) ==
    IF ~ajaxPost
    THEN /\ Respond("update_cart_item", u, id, q, "400", 0)
         /\ UNCHANGED <<store, nextId, co>>
    ELSE IF OwnItem(u, id) = {}
    THEN /\ Respond("update_cart_item", u, id, q, "404", 0)
         /\ UNCHANGED <<store, nextId, co>>
    ELSE LET item == CHOOSE i \in OwnItem(u, id) : TRUE IN
         IF QuantityNotPositive(q)
         THEN /\ cartItems' = cartItems \ {item}
              /\ Respond("update_cart_item", u, id, q, "deleted", item.quantity)
              /\ UNCHANGED <<users, product, inventory, carts, orders, orderItems, nextId, co>>
         ELSE IF q > product[item.product].stock
         THEN /\ Respond("update_cart_item", u, id, q, "InsufficientStock",
                         product[item.product].stock)
              /\ UNCHANGED <<store, nextId, co>>
         ELSE /\ set_quantity(item, q).quantity <= MaxQty
              /\ cartItems' = (cartItems \ {item}) \cup {set_quantity(item, q)}
              /\ Respond("update_cart_item", u, id, q, "updated", set_quantity(item, q).quantity)
              /\ UNCHANGED <<users, product, inventory, carts, orders, orderItems, nextId, co>>

\* Mutant of cart_items_delete: CartItem.objects.all().delete().
cart_items_delete_every_cart(c) == {}

\* "cart.items.all().delete()": the CartItem table without cart c's rows.
cart_items_delete(c) == cartItems \ ItemsOf(c)

\* cart.views.clear_cart
clear_cart(u) ==
    IF ~HasCart(u)
    THEN /\ Respond("clear_cart", u, 0, 0, "404", 0)
         /\ UNCHANGED <<store, nextId, co>>
    ELSE /\ cartItems' = cart_items_delete(CartOf(carts, u))
         /\ Respond("clear_cart", u, 0, 0, "cleared", Cardinality(ItemsOf(CartOf(carts, u))))
         /\ UNCHANGED <<users, product, inventory, carts, orders, orderItems, nextId, co>>

\* ------------------------------------------------ cart specification
\* The catalog of the cart tests (100.00 and 50.00), with stock 2 and 1.
ShopCatalog ==
    [p \in Products |->
        IF p = 1 THEN [exists |-> TRUE, price |-> 10000, stock |-> 2, status |-> "published"]
                 ELSE [exists |-> TRUE, price |-> 5000, stock |-> 1, status |-> "published"]]

\* One active SKU row per product holding the product's whole stock.
InventoryFor(f) ==
    {[id |-> p, product |-> p, count |-> f[p].stock, is_active |-> TRUE,
      variant |-> IF p = 1 THEN 1 ELSE 0] : p \in Products}

FirstIds == [inv |-> Cardinality(Products) + 1, cart |-> 1, item |-> 1, order |-> 1, oitem |-> 1]

InitCart ==
    /\ users = {1}
    /\ product = ShopCatalog
    /\ inventory = InventoryFor(product)
    /\ carts = {}
    /\ cartItems = {}
    /\ orders = {}
    /\ orderItems = {}
    /\ nextId = FirstIds
    /\ co = CoIdle
    /\ lastOp = NoOp

ItemIds == 1 .. MaxItemId

\* Requests that a view turns away on the method or the AJAX header alone
\* are drawn with one product and quantity: the view reads neither.
NextCart ==
    \/ \E u \in users : cart_detail(u)
    \/ \E u \in users, p \in ProductIds, q \in Quantities : add_to_cart(u, p, q, "POST")
    \/ \E u \in users : add_to_cart(u, 1, 1, "GET")
    \/ \E u \in users, p \in ProductIds, q \in Quantities, v \in Variants :
          add_to_cart_from_detail(u, p, q, "POST", v)
    \/ \E u \in users : add_to_cart_from_detail(u, 1, 1, "GET", 0)
    \/ \E u \in users, p \in ProductIds, q \in Quantities :
          quick_add_to_cart(u, p, q, "POST", TRUE)
    \/ \E u \in users, m \in Methods : quick_add_to_cart(u, 1, 1, m, FALSE)
    \/ \E u \in users, id \in ItemIds : remove_from_cart(u, id)
    \/ \E u \in users, id \in ItemIds, q \in Quantities : update_cart_item(u, id, q, TRUE)
    \/ \E u \in users : update_cart_item(u, 1, 1, FALSE)
    \/ \E u \in users : clear_cart(u)

SpecCart == InitCart /\ [][NextCart]_vars

\* ------------------------------------------------------------- checkout
\* Mutant of CartIsEmpty: only the missing Cart row is checked.
CartIsEmpty_no_cart_only(u) == ~HasCart(u)

\* "if not cart or not cart.items.exists()" of create_order.
CartIsEmpty(u) == ~HasCart(u) \/ ItemsOf(CartOf(carts, u)) = {}

RECURSIVE order_total_loop(_, _)
\* "for item in cart.items.all(): total_price += item.product.price * item.quantity"
order_total_loop(items, total) ==
    IF items = <<>> THEN total
    ELSE order_total_loop(Tail(items),
                          total + product[Head(items).product].price * Head(items).quantity)

\* "if not full_name or not phone or not address"
MissingField(data) == data[1] = "" \/ data[2] = "" \/ data[3] = ""

RECURSIVE order_items_loop_default_quantity(_, _, _)
\* Mutant of order_items_loop: quantity left at the field's default of 1.
order_items_loop_default_quantity(items, o, n) ==
    IF items = <<>> THEN {}
    ELSE {[id |-> n, order |-> o, product |-> Head(items).product,
           price |-> product[Head(items).product].price, quantity |-> 1]}
         \cup order_items_loop_default_quantity(Tail(items), o, n + 1)

RECURSIVE order_items_loop(_, _, _)
\* "for cart_item in cart.items.all(): OrderItem.objects.create(...)": the
\* OrderItem rows made for order o from the cart rows, ids from n on.
order_items_loop(items, o, n) ==
    IF items = <<>> THEN {}
    ELSE {[id |-> n, order |-> o, product |-> Head(items).product,
           price |-> product[Head(items).product].price,
           quantity |-> Head(items).quantity]}
         \cup order_items_loop(Tail(items), o, n + 1)

\* Mutant of create_order: a checkout that takes the ordered units out of
\* the stock of their products.
create_order_decrease_stock(u, method, data) ==
    /\ ~CartIsEmpty(u)
    /\ method = "POST"
    /\ ~MissingField(data)
    /\ nextId.order <= MaxOrderId
    /\ LET c == CartOf(carts, u)
           items == NewestFirst(ItemsOf(c))
       IN /\ orders' = orders \cup
                 {[id |-> nextId.order, user |-> u, full_name |-> data[1],
                   phone |-> data[2], address |-> data[3],
                   total_price |-> order_total_loop(items, 0), status |-> "pending"]}
          /\ orderItems' = orderItems \cup
                 order_items_loop(items, nextId.order, nextId.oitem)
          /\ product' = [p \in DOMAIN product |->
                 IF ItemFor(c, p) = {} THEN product[p]
                 ELSE [product[p] EXCEPT !.stock =
                          IF NewQuantity(c, p, 0) > @ THEN 0 ELSE @ - NewQuantity(c, p, 0)]]
          /\ cartItems' = cartItems \ ItemsOf(c)
          /\ nextId' = [nextId EXCEPT !.order = @ + 1, !.oitem = @ + Len(items)]
          /\ RespondTo("create_order", u, 0, 0, method, data, "created", nextId.order)
          /\ UNCHANGED <<users, inventory, carts, co>>

\* orders.views.create_order as one request, handled start to end.
create_order(u, method, data) ==
    IF CartIsEmpty(u)
    THEN /\ RespondTo("create_order", u, 0, 0, method, data, "EmptyCart", 0)
         /\ UNCHANGED <<store, nextId, co>>
    ELSE LET c == CartOf(carts, u)
             items == NewestFirst(ItemsOf(c))
             total == order_total_loop(items, 0)
         IN IF method # "POST"
            THEN /\ RespondTo("create_order", u, 0, 0, method, data, "form", total)
                 /\ UNCHANGED <<store, nextId, co>>
            ELSE IF MissingField(data)
            THEN /\ RespondTo("create_order", u, 0, 0, method, data, "MissingField", total)
                 /\ UNCHANGED <<store, nextId, co>>
            ELSE /\ nextId.order <= MaxOrderId
                 /\ orders' = orders \cup
                        {[id |-> nextId.order, user |-> u, full_name |-> data[1],
                          phone |-> data[2], address |-> data[3],
                          total_price |-> total, status |-> "pending"]}
                 /\ orderItems' = orderItems \cup
                        order_items_loop(items, nextId.order, nextId.oitem)
                 /\ cartItems' = cartItems \ ItemsOf(c)
                 /\ nextId' = [nextId EXCEPT !.order = @ + 1, !.oitem = @ + Len(items)]
                 /\ RespondTo("create_order", u, 0, 0, method, data, "created", nextId.order)
                 /\ UNCHANGED <<users, product, inventory, carts, co>>

\* Product admin: the price field edited and the product saved.
product_set_price(p, price) ==
    /\ Exists(p)
    /\ product[p].price # price
    /\ product' = [product EXCEPT ![p].price = price]
    /\ Respond("product_set_price", 0, p, 0, "saved", price)
    /\ UNCHANGED <<users, inventory, carts, cartItems, orders, orderItems, nextId, co>>

\* ------------------------------------------------ checkout specification
InitCheckout == InitCart

NextCheckout ==
    \/ \E u \in users, p \in Products : add_to_cart(u, p, 1, "POST")
    \/ \E u \in users, m \in Methods, d \in ShippingInputs : create_order(u, m, d)
    \/ \E price \in {5000, 10000} : product_set_price(2, price)

SpecCheckout == InitCheckout /\ [][NextCheckout]_vars

\* --------------------------------------------------------- order status
\* Attributes of the class Order (orders/models.py): its fields, Meta's
\* manager and __str__.  ORDER_STATUS_CHOICES is a name of the module
\* orders.models, not of the class.
OrderClassAttributes ==
    {"user", "full_name", "phone", "address", "total_price", "status",
     "created_at", "updated_at", "objects", "__str__"}

\* "new_status in [s[0] for s in ...ORDER_STATUS_CHOICES]"
IsValidStatus(s) == \E k \in 1 .. Len(ORDER_STATUS_CHOICES) : ORDER_STATUS_CHOICES[k] = s

\* get_object_or_404(Order, id=order_id, user=request.user)
OwnOrder(u, oid) == {o \in orders : o.id = oid /\ o.user = u}

\* The Order table with order oid's status set to s and saved.
SetStatus(oid, s) == {IF o.id = oid THEN [o EXCEPT !.status = s] ELSE o : o \in orders}

\* orders.views.update_order_status.  On a POST the view evaluates
\* Order.ORDER_STATUS_CHOICES, which raises AttributeError when the class
\* has no such attribute; s = "NONE" is a POST without a status field.
update_order_status(u, oid, method, s) ==
    IF OwnOrder(u, oid) = {}
    THEN /\ RespondTo("update_order_status", u, oid, 0, method, <<s, "", "">>, "404", 0)
         /\ UNCHANGED <<store, nextId, co>>
    ELSE IF method # "POST"
    THEN /\ RespondTo("update_order_status", u, oid, 0, method, <<s, "", "">>, "redirect", 0)
         /\ UNCHANGED <<store, nextId, co>>
    ELSE IF "ORDER_STATUS_CHOICES" \notin OrderClassAttributes
    THEN /\ RespondTo("update_order_status", u, oid, 0, method, <<s, "", "">>,
                      "AttributeError", 0)
         /\ UNCHANGED <<store, nextId, co>>
    ELSE IF IsValidStatus(s)
    THEN /\ orders' = SetStatus(oid, s)
         /\ RespondTo("update_order_status", u, oid, 0, method, <<s, "", "">>, "updated", 0)
         /\ UNCHANGED <<users, product, inventory, carts, cartItems, orderItems, nextId, co>>
    ELSE /\ RespondTo("update_order_status", u, oid, 0, method, <<s, "", "">>,
                      "InvalidStatus", 0)
         /\ UNCHANGED <<store, nextId, co>>

\* OrderAdmin: status edited in the change list (list_editable) or the change
\* form; the model form accepts only a value of the field's choices.
admin_change_status(oid, s) ==
    IF {o \in orders : o.id = oid} = {}
    THEN /\ RespondTo("admin_change_status", 0, oid, 0, "POST", <<s, "", "">>, "404", 0)
         /\ UNCHANGED <<store, nextId, co>>
    ELSE IF IsValidStatus(s)
    THEN /\ orders' = SetStatus(oid, s)
         /\ RespondTo("admin_change_status", 0, oid, 0, "POST", <<s, "", "">>, "saved", 0)
         /\ UNCHANGED <<users, product, inventory, carts, cartItems, orderItems, nextId, co>>
    ELSE /\ RespondTo("admin_change_status", 0, oid, 0, "POST", <<s, "", "">>,
                      "InvalidChoice", 0)
         /\ UNCHANGED <<store, nextId, co>>

\* -------------------------------------------- order status specification
OrderIds == 1 .. MaxOrderId

NextStatus ==
    \/ \E u \in users : add_to_cart(u, 1, 1, "POST")
    \/ \E u \in users : create_order(u, "POST", <<"Ann", "13800000000", "1 Main St">>)
    \/ \E u \in users, oid \in OrderIds, m \in Methods, st \in StatusInputs :
          update_order_status(u, oid, m, st)
    \/ \E oid \in OrderIds, st \in StatusInputs : admin_change_status(oid, st)

SpecStatus == InitCart /\ [][NextStatus]_vars

\* ------------------------------------------------ order status properties
\* The transitions of the order life cycle.
StatusEdges ==
    {<<"pending", "paid">>, <<"paid", "shipped">>, <<"shipped", "delivered">>,
     <<"pending", "cancelled">>, <<"paid", "cancelled">>}

StatusValues == {"pending", "paid", "shipped", "delivered", "cancelled"}

\* C5: every change of a stored status, by update_order_status or by the
\* admin, is an edge of the life cycle, and a request for a target that is no
\* edge from the stored status leaves the stored status as it was.
C5_StatusFollowsEdges ==
    [][ /\ \A o \in orders : \A n \in orders' :
              (o.id = n.id /\ o.status # n.status) => <<o.status, n.status>> \in StatusEdges
        /\ \A o \in orders :
              ( /\ lastOp'.op \in {"update_order_status", "admin_change_status"}
                /\ lastOp'.arg = o.id
                /\ <<o.status, lastOp'.data[1]>> \notin StatusEdges )
              => orders' = orders ]_vars

\* C6: a POST to update_order_status of the user's own order carrying a
\* status outside the five values (or none) reports InvalidStatus and leaves
\* the Order table as it was; every stored status is one of the five values.
C6_InvalidStatusRejected ==
    [][ /\ ( /\ lastOp'.op = "update_order_status"
             /\ lastOp'.method = "POST"
             /\ lastOp'.outcome # "404"
             /\ lastOp'.data[1] \notin StatusValues )
           => (lastOp'.outcome = "InvalidStatus" /\ orders' = orders)
        /\ \A o \in orders' : o.status \in StatusValues ]_vars

\* --------------------------------------------------------- registration
\* A User row created (post_save with created=True): cart.signals'
\* create_user_cart makes the new user's Cart.
create_user(u) ==
    /\ u \notin users
    /\ users' = users \cup {u}
    /\ carts' = carts \cup {[id |-> nextId.cart, user |-> u]}
    /\ nextId' = [nextId EXCEPT !.cart = @ + 1]
    /\ Respond("create_user", u, 0, 0, "created", nextId.cart)
    /\ UNCHANGED <<product, inventory, cartItems, orders, orderItems, co>>

\* User 1 is registered and has no Cart row; user 2 registers later.  Every
\* view that calls Cart.objects.get_or_create is requested.
NextUsers ==
    \/ \E u \in Users : create_user(u)
    \/ \E u \in users : cart_detail(u)
    \/ \E u \in users, q \in {1, 3} : add_to_cart(u, 1, q, "POST")
    \/ \E u \in users : add_to_cart_from_detail(u, 1, 1, "POST", 0)
    \/ \E u \in users : quick_add_to_cart(u, 1, 1, "POST", TRUE)

SpecUsers == InitCart /\ [][NextUsers]_vars

\* ------------------------------------------------ two-user specification
\* Two registered users, neither with a Cart row yet.
InitOwner ==
    /\ users = Users
    /\ product = ShopCatalog
    /\ inventory = InventoryFor(product)
    /\ carts = {}
    /\ cartItems = {}
    /\ orders = {}
    /\ orderItems = {}
    /\ nextId = FirstIds
    /\ co = CoIdle
    /\ lastOp = NoOp

\* User 1 fills a cart and checks out; user 2 does the same and sends every
\* request that addresses a row by id or acts on the requester's cart.
NextOwner ==
    \/ \E u \in users : add_to_cart(u, 1, 1, "POST")
    \/ \E u \in users : create_order(u, "POST", <<"Ann", "13800000000", "1 Main St">>)
    \/ \E id \in ItemIds : remove_from_cart(2, id)
    \/ \E id \in ItemIds : update_cart_item(2, id, 0, TRUE)
    \/ update_cart_item(2, 1, 2, TRUE)
    \/ clear_cart(2)
    \/ \E oid \in OrderIds : update_order_status(2, oid, "POST", "paid")

SpecOwner == InitOwner /\ [][NextOwner]_vars

\* ------------------------------------------------------------- inventory
\* product.inventory_items.aggregate(total=Sum('count'))['total'] or 0 over
\* the Inventory table inv: Sum is None for no rows, and "None or 0" is 0.
total_stock(inv, p) ==
    LET rows == {r \in inv : r.product = p}
    IN IF rows = {} THEN 0 ELSE SumOver([r \in rows |-> r.count], rows)

\* products.models.update_product_stock, the receiver of post_save and
\* post_delete of Inventory: the stock of instance.product recomputed and
\* saved (update_fields=['stock']).  prod is the Product table.
update_product_stock(prod, inv, p) ==
    [prod EXCEPT ![p].stock = total_stock(inv, p)]

\* products.signals.update_product_stock, the second receiver of the same
\* signals: it saves only when the stock differs.
signals_update_product_stock(prod, inv, p) ==
    IF prod[p].stock # total_stock(inv, p)
    THEN [prod EXCEPT ![p].stock = total_stock(inv, p)]
    ELSE prod

\* Both receivers, in the order they were connected, for the saved or
\* deleted row's product.
InventorySignals(inv, p) ==
    signals_update_product_stock(update_product_stock(product, inv, p), inv, p)

\* The receivers of post_save of Product: what Product.save() runs, with
\* update_fields or without (cart.signals).
ProductPostSave == <<"cart.signals.clear_cart_cache_on_price_change">>

\* The receivers that run after an Inventory row of product p was saved or
\* deleted, inv being the table afterwards: the two receivers of the
\* Inventory signals, each followed by the receivers of Product's post_save
\* when it saves the product.
ReceiversRun(inv, p) ==
    <<"products.models.update_product_stock">> \o ProductPostSave
    \o <<"products.signals.update_product_stock">>
    \o (IF update_product_stock(product, inv, p)[p].stock # total_stock(inv, p)
        THEN ProductPostSave ELSE <<>>)

\* unique_together = ['product', 'color', 'size'] over the table inv; rows
\* without color and size (variant 0) hold NULLs and never collide.
InventoryUnique(inv) ==
    \A r, t \in inv : (r.product = t.product /\ r.variant = t.variant /\ r.variant # 0)
                         => r = t

\* Inventory row created (a new line of the product's InventoryInline, or
\* Inventory.objects.create).
inventory_create(p, n, active, v) ==
    /\ Exists(p)
    /\ nextId.inv <= MaxInvId
    /\ LET row == [id |-> nextId.inv, product |-> p, count |-> n, is_active |-> active,
                   variant |-> v]
       IN IF ~InventoryUnique(inventory \cup {row})
          THEN /\ Respond("inventory_create", 0, p, n, "IntegrityError", 0)
               /\ UNCHANGED <<store, nextId, co>>
          ELSE /\ inventory' = inventory \cup {row}
               /\ product' = InventorySignals(inventory', p)
               /\ nextId' = [nextId EXCEPT !.inv = @ + 1]
               /\ RespondSignals("inventory_create", 0, p, n, "", NoData, "saved", row.id,
                                 ReceiversRun(inventory', p))
               /\ UNCHANGED <<users, carts, cartItems, orders, orderItems, co>>

\* Inventory row changed and saved: its count, is_active and product.
inventory_save(id, p, n, active) ==
    /\ Exists(p)
    /\ \E r \in inventory :
          /\ r.id = id
          /\ LET row == [r EXCEPT !.product = p, !.count = n, !.is_active = active]
                 table == (inventory \ {r}) \cup {row}
             IN /\ row # r
                /\ IF ~InventoryUnique(table)
                   THEN /\ Respond("inventory_save", 0, id, n, "IntegrityError", 0)
                        /\ UNCHANGED <<store, nextId, co>>
                   ELSE /\ inventory' = table
                        /\ product' = InventorySignals(table, p)
                        /\ RespondSignals("inventory_save", 0, id, n, "", NoData,
                                          IF r.product = p THEN "saved" ELSE "moved", p,
                                          ReceiversRun(table, p))
                        /\ UNCHANGED <<users, carts, cartItems, orders, orderItems,
                                       nextId, co>>

\* Inventory row deleted.
inventory_delete(id) ==
    \E r \in inventory :
       /\ r.id = id
       /\ inventory' = inventory \ {r}
       /\ product' = InventorySignals(inventory', r.product)
       /\ RespondSignals("inventory_delete", 0, id, 0, "", NoData, "deleted", r.product,
                         ReceiversRun(inventory', r.product))
       /\ UNCHANGED <<users, carts, cartItems, orders, orderItems, nextId, co>>

\* ------------------------------------------------ inventory specification
\* Two products without SKU rows, stock 0.
InitInventory ==
    /\ users = {1}
    /\ product = [p \in Products |-> [ShopCatalog[p] EXCEPT !.stock = 0]]
    /\ inventory = {}
    /\ carts = {}
    /\ cartItems = {}
    /\ orders = {}
    /\ orderItems = {}
    /\ nextId = [FirstIds EXCEPT !.inv = 1]
    /\ co = CoIdle
    /\ lastOp = NoOp

InvIds == 1 .. MaxInvId
Counts == 0 .. MaxCount

NextInventory ==
    \/ \E p \in Products, n \in Counts, a \in BOOLEAN, v \in Variants :
          inventory_create(p, n, a, v)
    \/ \E id \in InvIds, p \in Products, n \in Counts, a \in BOOLEAN :
          inventory_save(id, p, n, a)
    \/ \E id \in InvIds : inventory_delete(id)

SpecInventory == InitInventory /\ [][NextInventory]_vars

\* C1: right after an Inventory row was created, changed or deleted, the
\* stock of every product is the sum of count over the product's rows.
C1_StockIsInventorySum ==
    lastOp.op \in {"inventory_create", "inventory_save", "inventory_delete"} =>
        \A p \in Products :
            Exists(p) =>
                product[p].stock =
                    SumOver([r \in {t \in inventory : t.product = p} |-> r.count],
                            {t \in inventory : t.product = p})

\* The receivers connected to post_save and post_delete of Inventory.
InventoryReceivers ==
    {"products.models.update_product_stock", "products.signals.update_product_stock"}

\* The products of the Inventory rows the step created, changed or deleted.
ProductsOfChangedRows ==
    {r.product : r \in (inventory \ inventory') \cup (inventory' \ inventory)}

\* C18: an Inventory row created, saved or deleted changes no field of any
\* Product but the stock of a product of the changed row, changes no Cart,
\* CartItem, Order or OrderItem row, and runs no receiver other than the two
\* receivers of the Inventory signals.
C18_StockWriteOnly ==
    [][ ( /\ lastOp'.op \in {"inventory_create", "inventory_save", "inventory_delete"}
          /\ lastOp'.outcome # "IntegrityError" ) =>
        /\ \A p \in Products :
              /\ [product'[p] EXCEPT !.stock = product[p].stock] = product[p]
              /\ product'[p] # product[p] => p \in ProductsOfChangedRows
        /\ <<carts', cartItems', orders', orderItems'>> = <<carts, cartItems, orders, orderItems>>
        /\ \A k \in 1 .. Len(lastOp'.signals) : lastOp'.signals[k] \in InventoryReceivers ]_vars

\* -------------------------------------------------------- recommendations
\* The product ids of the recommender's catalog, the limits a caller passes
\* and the categories (0: the product has no category).
Catalog == {1, 2, 3}
Limits == {1, 2, 3}
Categories == {0, 1, 2}

Min(a, b) == IF a <= b THEN a ELSE b

\* seq[:n]
Slice(seq, n) == SubSeq(seq, 1, Min(n, Len(seq)))

\* order_by('-sales_count', '-view_count') puts p before q.
RanksAbove(p, q) ==
    \/ product[p].sales_count > product[q].sales_count
    \/ /\ product[p].sales_count = product[q].sales_count
       /\ product[p].view_count > product[q].view_count

\* The lists the database may return for the products S ordered by
\* ('-sales_count', '-view_count'): products with equal keys come in any order.
order_by(S) ==
    {seq \in [1 .. Cardinality(S) -> S] :
        /\ \A i, j \in 1 .. Cardinality(S) : i # j => seq[i] # seq[j]
        /\ \A i, j \in 1 .. Cardinality(S) : i < j => ~RanksAbove(seq[j], seq[i])}

\* Product.objects.filter(status='published')
PublishedProducts == {p \in DOMAIN product : product[p].exists /\ product[p].status = "published"}

\* Mutant of recommend_hot_products: the last limit products of the list.
recommend_hot_products_last(limit, hot) ==
    SubSeq(hot, Len(hot) - Min(limit, Len(hot)) + 1, Len(hot))

\* recommend_hot_products(limit), hot being the list its query returned.
recommend_hot_products(limit, hot) == Slice(hot, limit)

\* _combine_recommendations(products, limit), hot being the list the query of
\* recommend_hot_products returned.
combine_recommendations(products, limit, hot) ==
    IF Len(products) < limit
    THEN LET hot_products == recommend_hot_products(limit - Len(products), hot)
             existing_ids == {products[k] : k \in 1 .. Len(products)}
         IN Slice(products \o SelectSeq(hot_products, LAMBDA p : p \notin existing_ids), limit)
    ELSE Slice(products, limit)

\* The products of the rows of user u's cart, and their categories.
cart_product_ids(u) == {i.product : i \in ItemsOfUser(u)}
category_ids(u) == {product[p].category : p \in cart_product_ids(u)} \ {0}

\* filter(category_id__in=category_ids, status='published').exclude(id__in=cart_product_ids)
SimilarProducts(u) ==
    {p \in PublishedProducts : product[p].category \in category_ids(u)} \ cart_product_ids(u)

\* recommend_based_on_cart(limit); similar and hot are the lists its two
\* queries returned.
recommend_based_on_cart(u, limit, similar, hot) ==
    IF ~HasCart(u) \/ ItemsOfUser(u) = {}
    THEN recommend_hot_products(limit, hot)
    ELSE IF category_ids(u) # {}
    THEN IF Len(Slice(similar, limit * 2)) >= limit
         THEN Slice(Slice(similar, limit * 2), limit)
         ELSE combine_recommendations(Slice(similar, limit * 2), limit, hot)
    ELSE recommend_hot_products(limit, hot)

\* recommend_for_user(limit); u = 0 is the anonymous user.
recommend_for_user(u, limit, similar, hot) ==
    IF u \notin users
    THEN recommend_hot_products(limit, hot)
    ELSE IF ~HasCart(u)
    THEN recommend_hot_products(limit, hot)
    ELSE IF Cardinality(ItemsOfUser(u)) > 0
    THEN recommend_based_on_cart(u, limit, similar, hot)
    ELSE recommend_hot_products(limit, hot)

\* filter(category=product.category, status='published').exclude(id=product.id)
RelatedProducts(x) ==
    {p \in PublishedProducts : product[p].category = product[x].category} \ {x}

\* recommend_related_products(product, limit); related and hot are the lists
\* its queries returned.
recommend_related_products(x, limit, related, hot) ==
    IF product[x].category = 0
    THEN recommend_hot_products(limit, hot)
    ELSE Slice(related, limit)

\* get_recommendations with type=user (and user_recommendations).
get_recommendations_user(u, limit) ==
    \E similar \in order_by(SimilarProducts(u)), hot \in order_by(PublishedProducts) :
       /\ RespondList("recommend_for_user", u, 0, limit, "ok",
                      recommend_for_user(u, limit, similar, hot))
       /\ UNCHANGED <<store, nextId, co>>

\* get_recommendations with type=related and a product_id.
get_recommendations_related(x, limit) ==
    \E related \in order_by(RelatedProducts(x)), hot \in order_by(PublishedProducts) :
       /\ RespondList("recommend_related_products", 0, x, limit, "ok",
                      recommend_related_products(x, limit, related, hot))
       /\ UNCHANGED <<store, nextId, co>>

\* ------------------------------------------- recommendation specification
\* The rows a product of the recommender's catalog may hold: with or without
\* a category, published with the sales and view counts that order two
\* products either way or leave them tied, or a draft (which no query of
\* the recommender ranks).
CatalogRows ==
    {[exists |-> TRUE, price |-> 10000, stock |-> 1, status |-> "published", category |-> c,
      sales_count |-> r[1], view_count |-> r[2]] :
        c \in Categories, r \in {<<0, 0>>, <<0, 1>>, <<1, 0>>}}
    \cup {[exists |-> TRUE, price |-> 10000, stock |-> 1, status |-> "draft", category |-> c,
           sales_count |-> 0, view_count |-> 0] : c \in Categories}

\* The carts of user 1: no Cart row, a Cart without rows, a Cart holding
\* product 1, a Cart holding products 1 and 2.
CartContents == {<<>>, <<1>>, <<1, 2>>}

InitRecommend ==
    /\ users = {1}
    /\ product \in [Catalog -> CatalogRows]
    /\ inventory = {}
    /\ carts \in {{}, {[id |-> 1, user |-> 1]}}
    /\ \E ps \in CartContents :
          /\ ps # <<>> => carts # {}
          /\ cartItems = {[id |-> k, cart |-> 1, product |-> ps[k], quantity |-> 1] :
                            k \in 1 .. Len(ps)}
    /\ orders = {}
    /\ orderItems = {}
    /\ nextId = [inv |-> 1, cart |-> 2, item |-> 3, order |-> 1, oitem |-> 1]
    /\ co = CoIdle
    /\ lastOp = NoOp

\* The anonymous visitor's list does not depend on a cart: one limit is drawn
\* for it.  A product has at most two related products in this catalog.
NextRecommend ==
    \/ \E limit \in Limits : get_recommendations_user(1, limit)
    \/ get_recommendations_user(0, 2)
    \/ \E x \in Catalog, limit \in {1, 2} : get_recommendations_related(x, limit)

SpecRecommend == InitRecommend /\ [][NextRecommend]_vars

\* The products the list seq holds.
Listed(seq) == {seq[k] : k \in 1 .. Len(seq)}

\* C19: the list recommend_for_user returns to a user with a non-empty cart
\* holds no product of that user's cart.
C19_NoCartProductRecommended ==
    ( /\ lastOp.op = "recommend_for_user"
      /\ lastOp.user \in users
      /\ ItemsOfUser(lastOp.user) # {} )
    => Listed(lastOp.list) \cap cart_product_ids(lastOp.user) = {}

\* C20: the list recommend_related_products(x, limit) returns does not hold
\* x, holds only published products of x's category, and is ordered by
\* sales_count descending, then view_count descending.
C20_RelatedProducts ==
    lastOp.op = "recommend_related_products" =>
        LET x == lastOp.arg
            seq == lastOp.list
        IN /\ x \notin Listed(seq)
           /\ \A p \in Listed(seq) : /\ p \in PublishedProducts
                                     /\ product[p].category = product[x].category
           /\ \A i, j \in 1 .. Len(seq) : i < j => ~RanksAbove(seq[j], seq[i])

\* C21: when the same-category query of recommend_based_on_cart finds fewer
\* than limit products, the returned list holds no product twice, holds at
\* most limit products, and holds exactly limit products whenever the
\* published catalog (which includes the products found) has at least limit.
C21_PaddedToLimit ==
    ( /\ lastOp.op = "recommend_for_user"
      /\ lastOp.user \in users
      /\ ItemsOfUser(lastOp.user) # {}
      /\ category_ids(lastOp.user) # {}
      /\ Cardinality(SimilarProducts(lastOp.user)) < lastOp.qty )
    => /\ Cardinality(Listed(lastOp.list)) = Len(lastOp.list)
       /\ Len(lastOp.list) <= lastOp.qty
       /\ Cardinality(SimilarProducts(lastOp.user) \cup PublishedProducts) >= lastOp.qty
             => Len(lastOp.list) = lastOp.qty

\* recommend_for_user was called for a visitor who is anonymous, has no Cart
\* row, or has a Cart without rows.
HotListCase ==
    /\ lastOp.op = "recommend_for_user"
    /\ \/ lastOp.user \notin users
       \/ ~HasCart(lastOp.user)
       \/ ItemsOfUser(lastOp.user) = {}

\* C22: in that case the list holds only published products, none twice,
\* min(limit, number of published products) of them, in the order of
\* sales_count descending then view_count descending, and no published
\* product left out ranks strictly above a listed one.
C22_HotList ==
    HotListCase =>
        LET seq == lastOp.list IN
        /\ Listed(seq) \subseteq PublishedProducts
        /\ Cardinality(Listed(seq)) = Len(seq)
        /\ Len(seq) = Min(lastOp.qty, Cardinality(PublishedProducts))
        /\ \A i, j \in 1 .. Len(seq) : i < j => ~RanksAbove(seq[j], seq[i])
        /\ \A p \in PublishedProducts \ Listed(seq) : \A q \in Listed(seq) : ~RanksAbove(p, q)

\* C22 witness: a user whose Cart has no rows asked for 2 of 3 published
\* products; the two listed are in rank order and the third ranks below.
C22_Witness ==
    /\ HotListCase
    /\ lastOp.user = 1
    /\ HasCart(1)
    /\ lastOp.qty = 2
    /\ Len(lastOp.list) = 2
    /\ Cardinality(PublishedProducts) = 3
    /\ RanksAbove(lastOp.list[1], lastOp.list[2])
    /\ \E p \in PublishedProducts \ Listed(lastOp.list) : RanksAbove(lastOp.list[2], p)

\* ------------------------------------------------- catalog administration
\* A deleted Product row.
Deleted == [exists |-> FALSE, price |-> 0, stock |-> 0, status |-> "draft"]

\* Product admin: a product deleted.  on_delete=CASCADE takes its Inventory,
\* CartItem and OrderItem rows with it.
product_delete(p) ==
    /\ Exists(p)
    /\ product' = [product EXCEPT ![p] = Deleted]
    /\ inventory' = {r \in inventory : r.product # p}
    /\ cartItems' = {i \in cartItems : i.product # p}
    /\ orderItems' = {oi \in orderItems : oi.product # p}
    /\ Respond("product_delete", 0, p, 0, "deleted", 0)
    /\ UNCHANGED <<users, carts, orders, nextId, co>>

\* ------------------------------------------------ checkout, step by step
\* create_order as the store sees it: every query of the view is a step of
\* its own, and the requests of other connections run between the steps
\* (the view opens no transaction).  co.before keeps the cart rows found at
\* the start of the request.
co_begin(u, method, data) ==
    /\ co.pc = "idle"
    /\ IF CartIsEmpty(u)
       THEN /\ RespondTo("create_order", u, 0, 0, method, data, "EmptyCart", 0)
            /\ UNCHANGED <<store, nextId, co>>
       ELSE LET c == CartOf(carts, u)
                total == order_total_loop(NewestFirst(ItemsOf(c)), 0)
            IN IF method # "POST"
               THEN /\ RespondTo("create_order", u, 0, 0, method, data, "form", total)
                    /\ UNCHANGED <<store, nextId, co>>
               ELSE IF MissingField(data)
               THEN /\ RespondTo("create_order", u, 0, 0, method, data, "MissingField", total)
                    /\ UNCHANGED <<store, nextId, co>>
               ELSE /\ co' = [pc |-> "create", user |-> u, cart |-> c, total |-> total,
                              order |-> 0, todo |-> <<>>, data |-> data,
                              before |-> ItemsOf(c)]
                    /\ UNCHANGED <<store, nextId, lastOp>>

\* "order = Order.objects.create(...)"
co_create ==
    /\ co.pc = "create"
    /\ nextId.order <= MaxOrderId
    /\ orders' = orders \cup
           {[id |-> nextId.order, user |-> co.user, full_name |-> co.data[1],
             phone |-> co.data[2], address |-> co.data[3],
             total_price |-> co.total, status |-> "pending"]}
    /\ nextId' = [nextId EXCEPT !.order = @ + 1]
    /\ co' = [co EXCEPT !.pc = "fetch", !.order = nextId.order]
    /\ UNCHANGED <<users, product, inventory, carts, cartItems, orderItems, lastOp>>

\* "for cart_item in cart.items.all()": the query that loads the rows.
co_fetch ==
    /\ co.pc = "fetch"
    /\ co' = [co EXCEPT !.pc = "copy", !.todo = NewestFirst(ItemsOf(co.cart))]
    /\ UNCHANGED <<store, nextId, lastOp>>

\* One turn of the loop: cart_item.product is fetched (DoesNotExist when the
\* product is gone, which ends the request) and the OrderItem is created.
co_copy ==
    /\ co.pc = "copy"
    /\ co.todo # <<>>
    /\ LET item == Head(co.todo) IN
       IF ~Exists(item.product)
       THEN /\ RespondTo("create_order", co.user, 0, 0, "POST", co.data,
                         "DoesNotExist", co.order)
            /\ co' = [co EXCEPT !.pc = "failed"]
            /\ UNCHANGED <<store, nextId>>
       ELSE /\ orderItems' = orderItems \cup
                   {[id |-> nextId.oitem, order |-> co.order, product |-> item.product,
                     price |-> product[item.product].price, quantity |-> item.quantity]}
            /\ nextId' = [nextId EXCEPT !.oitem = @ + 1]
            /\ co' = [co EXCEPT !.todo = Tail(@)]
            /\ UNCHANGED <<users, product, inventory, carts, cartItems, orders, lastOp>>

\* "cart.items.all().delete()" and the redirect to the order.
co_clear ==
    /\ co.pc = "copy"
    /\ co.todo = <<>>
    /\ cartItems' = cartItems \ ItemsOf(co.cart)
    /\ RespondTo("create_order", co.user, 0, 0, "POST", co.data, "created", co.order)
    /\ co' = [co EXCEPT !.pc = "done"]
    /\ UNCHANGED <<users, product, inventory, carts, orders, orderItems, nextId>>

\* The connection takes its next request.
co_next ==
    /\ co.pc \in {"done", "failed"}
    /\ co' = CoIdle
    /\ UNCHANGED <<store, nextId, lastOp>>

\* ------------------------------------------------- Product's stock methods
\* Mutant of decrease_stock: no "if quantity > self.stock" before the
\* subtraction.
decrease_stock_unchecked(p, q) ==
    /\ Exists(p)
    /\ product' = [product EXCEPT ![p].stock = @ - q]
    /\ Respond("decrease_stock", 0, p, q, "True", product[p].stock - q)
    /\ UNCHANGED <<users, inventory, carts, cartItems, orders, orderItems, nextId, co>>

\* Product.decrease_stock(quantity) on the row of product p.
decrease_stock(p, q) ==
    /\ Exists(p)
    /\ IF q > product[p].stock
       THEN /\ Respond("decrease_stock", 0, p, q, "False", product[p].stock)
            /\ UNCHANGED <<store, nextId, co>>
       ELSE /\ product' = [product EXCEPT ![p].stock = @ - q]
            /\ Respond("decrease_stock", 0, p, q, "True", product[p].stock - q)
            /\ UNCHANGED <<users, inventory, carts, cartItems, orders, orderItems,
                           nextId, co>>

\* Product.increase_stock(quantity) on the row of product p.
increase_stock(p, q) ==
    /\ Exists(p)
    /\ product[p].stock + q <= MaxStock
    /\ product' = [product EXCEPT ![p].stock = @ + q]
    /\ Respond("increase_stock", 0, p, q, "True", product[p].stock + q)
    /\ UNCHANGED <<users, inventory, carts, cartItems, orders, orderItems, nextId, co>>

\* The quantities the two methods are called with ("quantity: a positive
\* integer"), and 0.
StockQuantities == 0 .. MaxQty

NextStockMethods ==
    \/ \E p \in Products, q \in StockQuantities : decrease_stock(p, q)
    \/ \E p \in Products, q \in StockQuantities : increase_stock(p, q)

SpecStockMethods == InitCart /\ [][NextStockMethods]_vars

\* C29: decrease_stock(q) returns False and leaves the stock alone when q is
\* more than the stock, and otherwise lowers the stock by q and returns True,
\* the stock staying at least 0; increase_stock(q) raises the stock by q and
\* returns True.  No other product's row changes.
C29_StockMethods ==
    [][ (lastOp' # lastOp /\ lastOp'.op \in {"decrease_stock", "increase_stock"}) =>
        LET p == lastOp'.arg
            q == lastOp'.qty
        IN /\ \A r \in Products : r # p => product'[r] = product[r]
           /\ product'[p].stock >= 0
           /\ lastOp'.op = "decrease_stock" =>
                 IF q > product[p].stock
                 THEN lastOp'.outcome = "False" /\ product' = product
                 ELSE /\ lastOp'.outcome = "True"
                      /\ product'[p] = [product[p] EXCEPT !.stock = product[p].stock - q]
           /\ lastOp'.op = "increase_stock" =>
                 /\ lastOp'.outcome = "True"
                 /\ product'[p] = [product[p] EXCEPT !.stock = product[p].stock + q] ]_vars

\* C29 witness: decrease_stock took the whole stock of product 1, raised to 3
\* before, and the stock is 0.
C29_Witness ==
    /\ lastOp.op = "decrease_stock"
    /\ lastOp.arg = 1
    /\ lastOp.qty = 3
    /\ lastOp.outcome = "True"
    /\ product[1].stock = 0

\* ------------------------------------------------ cart total, step by step
\* cart_detail as the store sees it: Cart.total_price() loads the cart's rows
\* and then fetches each row's product with a query of its own, while the
\* requests of other connections run between the queries.
cart_detail_begin(u) ==
    /\ co.pc = "idle"
    /\ carts' = get_or_create_cart(u)
    /\ nextId' = IdsAfterCart(u)
    /\ co' = [pc |-> "total", user |-> u, cart |-> CartOf(carts', u), total |-> 0,
              order |-> 0, todo |-> NewestFirst(ItemsOf(CartOf(carts', u))),
              data |-> NoData, before |-> ItemsOf(CartOf(carts', u))]
    /\ UNCHANGED <<users, product, inventory, cartItems, orders, orderItems, lastOp>>

\* Mutant of total_price_add: the row's DoesNotExist not caught by
\* CartItem.total_price, so that Cart.total_price's handler returns 0.00.
total_price_add_reset(total, i) ==
    IF Exists(i.product) THEN total + item_total_price(i) ELSE 0

\* "total += item.total_price()" of Cart.total_price.
total_price_add(total, i) == total + item_total_price(i)

\* One turn of the loop of Cart.total_price.
total_price_item ==
    /\ co.pc = "total"
    /\ co.todo # <<>>
    /\ co' = [co EXCEPT !.total = total_price_add(co.total, Head(co.todo)), !.todo = Tail(@)]
    /\ UNCHANGED <<store, nextId, lastOp>>

\* The loop is over: total_price returns and the page is rendered.
cart_detail_render ==
    /\ co.pc = "total"
    /\ co.todo = <<>>
    /\ Respond("cart_detail", co.user, 0, 0, "ok", co.total)
    /\ co' = [co EXCEPT !.pc = "done"]
    /\ UNCHANGED <<store, nextId>>

NextTotal ==
    \/ \E u \in users, p \in Products, q \in {1, 2} : add_to_cart(u, p, q, "POST")
    \/ \E u \in users : cart_detail_begin(u)
    \/ total_price_item
    \/ cart_detail_render
    \/ co_next
    \/ \E p \in Products : product_delete(p)

SpecTotal == InitCart /\ [][NextTotal]_vars

\* C23: Cart.total_price never ends in an error; every turn of its loop adds
\* quantity * price of its row, or 0 when the row's product is gone, and the
\* total returned is the sum of what the turns added.
C23_TotalPriceNeverRaises ==
    [][ (co.pc = "total" /\ co' # co) =>
        IF co.todo # <<>>
        THEN LET i == Head(co.todo) IN
             /\ co'.pc = "total"
             /\ co'.todo = Tail(co.todo)
             /\ co'.total = co.total + (IF product[i.product].exists
                                        THEN i.quantity * product[i.product].price ELSE 0)
        ELSE /\ co'.pc = "done"
             /\ lastOp'.op = "cart_detail"
             /\ lastOp'.outcome = "ok"
             /\ lastOp'.ref = co.total ]_vars

\* C23 witness: a cart of 100.00 x 1 and 50.00 x 2 whose first product was
\* deleted while the total was computed: the total returned is 2 x 50.00.
C23_Witness ==
    /\ co.pc = "done"
    /\ lastOp.op = "cart_detail"
    /\ lastOp.outcome = "ok"
    /\ {<<i.product, i.quantity>> : i \in co.before} = {<<1, 1>>, <<2, 2>>}
    /\ ~product[1].exists
    /\ product[2].exists
    /\ lastOp.ref = 10000

\* ------------------------------------------------- two adds, step by step
\* Two add_to_cart requests of one user for one product, each on a connection
\* of its own.  co.todo holds the two requests: the quantity asked for, the
\* position in lines 56-66 and the quantity the request's CartItem object holds
\* in memory.  co.total is the row's quantity before the two requests (0 when
\* there was no row).
add_begin(u, p, q1, q2) ==
    /\ co.pc = "idle"
    /\ Exists(p)
    /\ ~InsufficientStock(p, q1)
    /\ ~InsufficientStock(p, q2)
    /\ LET cs == get_or_create_cart(u)
           c == CartOf(cs, u)
       IN /\ NewQuantity(c, p, q1) + q2 <= MaxQty
          /\ ItemFor(c, p) = {} => nextId.item <= MaxItemId
          /\ carts' = cs
          /\ nextId' = IdsAfterCart(u)
          /\ co' = [pc |-> "adding", user |-> u, cart |-> c,
                    total |-> NewQuantity(c, p, q1) - q1, order |-> 0,
                    todo |-> << [product |-> p, q |-> q1, pc |-> "start", quantity |-> 0],
                                [product |-> p, q |-> q2, pc |-> "start", quantity |-> 0] >>,
                    data |-> NoData, before |-> ItemFor(c, p)]
    /\ UNCHANGED <<users, product, inventory, cartItems, orders, orderItems, lastOp>>

\* cart_item.save() after "cart_item.quantity += quantity": the UPDATE writes
\* the object's quantity n + q, n being what the object read.
item_save(id, n, q) ==
    {IF i.id = id THEN [i EXCEPT !.quantity = n + q] ELSE i : i \in cartItems}

\* CartItem.objects.get_or_create of request k: the row is loaded, or it is
\* created with the request's quantity and the request is over.
add_get_or_create(k) ==
    /\ co.pc = "adding"
    /\ co.todo[k].pc = "start"
    /\ LET r == co.todo[k] IN
       IF ItemFor(co.cart, r.product) = {}
       THEN /\ cartItems' = cart_item_get_or_create(co.cart, r.product, r.q)
            /\ nextId' = [nextId EXCEPT !.item = @ + 1]
            /\ co' = [co EXCEPT !.todo[k].pc = "done", !.todo[k].quantity = r.q]
            /\ Respond("add_to_cart", co.user, r.product, r.q, "added", r.q)
       ELSE /\ co' = [co EXCEPT !.todo[k].pc = "loaded",
                                !.todo[k].quantity =
                                    (CHOOSE i \in ItemFor(co.cart, r.product) : TRUE).quantity]
            /\ UNCHANGED <<cartItems, nextId, lastOp>>
    /\ UNCHANGED <<users, product, inventory, carts, orders, orderItems>>

\* "cart_item.quantity += quantity; cart_item.save()" of request k.
add_save(k) ==
    /\ co.pc = "adding"
    /\ co.todo[k].pc = "loaded"
    /\ LET r == co.todo[k]
           row == CHOOSE i \in ItemFor(co.cart, r.product) : TRUE
       IN /\ cartItems' = item_save(row.id, r.quantity, r.q)
          /\ co' = [co EXCEPT !.todo[k].pc = "done", !.todo[k].quantity = r.quantity + r.q]
          /\ Respond("add_to_cart", co.user, r.product, r.q, "added", r.quantity + r.q)
    /\ UNCHANGED <<users, product, inventory, carts, orders, orderItems, nextId>>

BothDone == co.pc = "adding" /\ \A k \in {1, 2} : co.todo[k].pc = "done"

\* Both responses are out.
add_end ==
    /\ BothDone
    /\ co' = CoIdle
    /\ UNCHANGED <<store, nextId, lastOp>>

\* The pair of requests is alone with the row: other adds come before or after.
NextAdds ==
    \/ \E u \in users, p \in Products : co.pc = "idle" /\ add_to_cart(u, p, 1, "POST")
    \/ \E u \in users, p \in Products, q1, q2 \in {1, 2} : add_begin(u, p, q1, q2)
    \/ \E k \in {1, 2} : add_get_or_create(k)
    \/ \E k \in {1, 2} : add_save(k)
    \/ add_end

SpecAdds == InitCart /\ [][NextAdds]_vars

\* C24: once two concurrent adds for the same cart and product are both over,
\* the pair has exactly one row and its quantity is the quantity before the
\* two requests plus q1 plus q2.
C24_NoLostUpdate ==
    BothDone =>
        LET rows == ItemFor(co.cart, co.todo[1].product) IN
        /\ Cardinality(rows) = 1
        /\ \A i \in rows : i.quantity = co.total + co.todo[1].q + co.todo[2].q

\* ---------------------------------------- two inventory writes, step by step
\* Two writes of Inventory rows of one product, each on a connection of its
\* own.  co.todo holds the two writes: the row (0: a new row), the count, the
\* position in the handlers, the stock the write's Product object holds in
\* memory (instance.product, one object for both receivers) and the number of
\* Product saves the write has made.
WritesOf(p) ==
    [row : {0} \cup {r.id : r \in {t \in inventory : t.product = p}}, n : Counts]

inventory_begin(p, w1, w2) ==
    /\ co.pc = "idle"
    /\ Exists(p)
    /\ co' = [pc |-> "stocking", user |-> 0, cart |-> 0, total |-> 0, order |-> 0,
              todo |-> << [product |-> p, row |-> w1.row, n |-> w1.n, pc |-> "start",
                           stock |-> product[p].stock, saves |-> 0],
                          [product |-> p, row |-> w2.row, n |-> w2.n, pc |-> "start",
                           stock |-> product[p].stock, saves |-> 0] >>,
              data |-> NoData, before |-> {}]
    /\ UNCHANGED <<store, nextId, lastOp>>

\* Inventory.save() of write k: the INSERT or the UPDATE of the row.
inventory_write(k) ==
    /\ co.pc = "stocking"
    /\ co.todo[k].pc = "start"
    /\ LET w == co.todo[k] IN
       IF w.row = 0
       THEN /\ nextId.inv <= MaxInvId
            /\ inventory' = inventory \cup {[id |-> nextId.inv, product |-> w.product,
                                              count |-> w.n, is_active |-> TRUE,
                                              variant |-> 0]}
            /\ nextId' = [nextId EXCEPT !.inv = @ + 1]
            /\ co' = [co EXCEPT !.todo[k].pc = "written", !.todo[k].row = nextId.inv]
       ELSE /\ inventory' = {IF r.id = w.row THEN [r EXCEPT !.count = w.n] ELSE r :
                                r \in inventory}
            /\ co' = [co EXCEPT !.todo[k].pc = "written"]
            /\ UNCHANGED nextId
    /\ UNCHANGED <<users, product, carts, cartItems, orders, orderItems, lastOp>>

\* products.models.update_product_stock of write k, the aggregate query and
\* "product.stock = total_stock".
stock_aggregate(k) ==
    /\ co.pc = "stocking"
    /\ co.todo[k].pc = "written"
    /\ co' = [co EXCEPT !.todo[k].pc = "summed",
                        !.todo[k].stock = total_stock(inventory, co.todo[k].product)]
    /\ UNCHANGED <<store, nextId, lastOp>>

\* products.models.update_product_stock of write k,
\* product.save(update_fields=['stock']).
stock_save(k) ==
    /\ co.pc = "stocking"
    /\ co.todo[k].pc = "summed"
    /\ product' = [product EXCEPT ![co.todo[k].product].stock = co.todo[k].stock]
    /\ co' = [co EXCEPT !.todo[k].pc = "saved", !.todo[k].saves = @ + 1]
    /\ UNCHANGED <<users, inventory, carts, cartItems, orders, orderItems, nextId, lastOp>>

\* Mutant of StockDiffers: the second receiver never saves.
StockDiffers_never(stock, total) == FALSE

\* "product.stock != total_stock" of products.signals.update_product_stock.
StockDiffers(stock, total) == stock # total

\* products.signals.update_product_stock of write k, the aggregate query and
\* the comparison with the stock of the Product object; the handlers of the
\* write are over when the two are equal.
signals_stock_aggregate(k) ==
    /\ co.pc = "stocking"
    /\ co.todo[k].pc = "saved"
    /\ LET w == co.todo[k]
           total == total_stock(inventory, w.product)
       IN IF StockDiffers(w.stock, total)
          THEN co' = [co EXCEPT !.todo[k].pc = "differs", !.todo[k].stock = total]
          ELSE co' = [co EXCEPT !.todo[k].pc = "done"]
    /\ UNCHANGED <<store, nextId, lastOp>>

\* products.signals.update_product_stock of write k,
\* product.save(update_fields=['stock']).
signals_stock_save(k) ==
    /\ co.pc = "stocking"
    /\ co.todo[k].pc = "differs"
    /\ LET w == co.todo[k] IN
       /\ product' = [product EXCEPT ![w.product].stock = w.stock]
       /\ co' = [co EXCEPT !.todo[k].pc = "done", !.todo[k].saves = @ + 1]
    /\ UNCHANGED <<users, inventory, carts, cartItems, orders, orderItems, nextId, lastOp>>

BothSaved == co.pc = "stocking" /\ \A k \in {1, 2} : co.todo[k].pc = "done"

\* Both writes have returned.
inventory_end ==
    /\ BothSaved
    /\ co' = [co EXCEPT !.pc = "done"]
    /\ UNCHANGED <<store, nextId, lastOp>>

\* A row created while no pair of writes is under way: the pair is alone
\* with the product's rows.
inventory_seed(p) ==
    /\ co.pc = "idle"
    /\ inventory_create(p, 1, TRUE, 0)

NextStock ==
    \/ inventory_seed(1)
    \/ \E w1, w2 \in WritesOf(1) : inventory_begin(1, w1, w2)
    \/ \E k \in {1, 2} : inventory_write(k)
    \/ \E k \in {1, 2} : stock_aggregate(k)
    \/ \E k \in {1, 2} : stock_save(k)
    \/ \E k \in {1, 2} : signals_stock_aggregate(k)
    \/ \E k \in {1, 2} : signals_stock_save(k)
    \/ inventory_end

SpecStock == InitInventory /\ [][NextStock]_vars

\* C25: once the handlers of two concurrent Inventory writes of one product
\* have all finished, the product's stock is the sum of the counts of its
\* Inventory rows.
C25_StockAfterConcurrentWrites ==
    BothSaved =>
        product[co.todo[1].product].stock = total_stock(inventory, co.todo[1].product)

\* C25 witness: both writes are over, one of them saved a sum that the other
\* write had made stale and saved the product a second time, and the stock
\* is the sum of two rows.
C25_Witness ==
    /\ BothSaved
    /\ \E k \in {1, 2} : co.todo[k].saves = 2
    /\ co.todo[1].row # co.todo[2].row
    /\ co.todo[1].n > 0 /\ co.todo[2].n > 0
    /\ product[co.todo[1].product].stock = co.todo[1].n + co.todo[2].n

\* ------------------------------------- step-by-step checkout specification
InitConc == InitCart

NextConc ==
    \/ \E u \in users, p \in Products : add_to_cart(u, p, 1, "POST")
    \/ \E u \in users, m \in Methods, d \in ShippingInputs : co_begin(u, m, d)
    \/ co_create
    \/ co_fetch
    \/ co_copy
    \/ co_clear
    \/ co_next
    \/ \E p \in Products : product_delete(p)

SpecConc == InitConc /\ [][NextConc]_vars

\* The store holds nothing of the create_order request that just failed, and
\* the user's cart holds the rows found at the request's start (those whose
\* product still exists).
NothingOfFailedCheckout ==
    /\ {i \in cartItems : i.cart = co.cart} = {i \in co.before : Exists(i.product)}
    /\ \A o \in orders : o.id # co.order
    /\ \A oi \in orderItems : oi.order # co.order

\* C2: a create_order request that ends in anything but success (EmptyCart,
\* a missing shipping field, a failure while the cart rows are copied)
\* leaves the user's CartItem rows as they were at its start and leaves no
\* Order or OrderItem row of its own in the store.
C2_FailedCheckoutLeavesNothing ==
    [][ /\ (co'.pc = "failed" /\ co.pc # "failed") => NothingOfFailedCheckout'
        /\ ( /\ lastOp' # lastOp
             /\ lastOp'.op = "create_order"
             /\ lastOp'.outcome \in {"EmptyCart", "MissingField"} )
           => (cartItems' = cartItems /\ orders' = orders /\ orderItems' = orderItems) ]_vars

\* ------------------------------ checkout among the user's other requests
\* create_order one statement at a time, with the same user's adds and the
\* admin's price changes between its statements.
NextSnapshot ==
    \/ \E u \in users, p \in Products : add_to_cart(u, p, 1, "POST")
    \/ \E u \in users : co_begin(u, "POST", <<"Ann", "13800000000", "1 Main St">>)
    \/ co_create
    \/ co_fetch
    \/ co_copy
    \/ co_clear
    \/ co_next
    \/ product_set_price(2, 10000)

SpecSnapshot == InitCart /\ [][NextSnapshot]_vars

\* C26: when a checkout clears the cart, every CartItem it deletes has an
\* OrderItem of the new order with the same product and quantity, and the
\* order's total_price is the sum of price * quantity over its OrderItems.
C26_ConsistentSnapshot ==
    [][ (co.pc = "copy" /\ co'.pc = "done") =>
        LET deleted == cartItems \ cartItems'
            ois == {oi \in orderItems' : oi.order = co.order}
        IN /\ \A i \in deleted : \E oi \in ois :
                  oi.product = i.product /\ oi.quantity = i.quantity
           /\ \A o \in orders' : o.id = co.order =>
                  o.total_price = SumOver([oi \in ois |-> oi.price * oi.quantity], ois) ]_vars

\* --------------------------------------------------- checkout properties
\* The CartItem rows of user u's cart (none when u has no Cart row).
RowsOfUser(u) == {i \in cartItems : \E c \in carts : c.user = u /\ c.id = i.cart}

\* C3: a create_order that succeeds leaves the Cart row with no CartItem,
\* adds exactly one Order (pending, of the user, with the submitted name,
\* phone and address, total the sum of price * quantity) and exactly one
\* OrderItem per former CartItem with its product, quantity and current price.
C3_CheckoutSnapshot ==
    [][ (lastOp'.op = "create_order" /\ lastOp'.outcome = "created") =>
        LET u == lastOp'.user
            before == RowsOfUser(u)
            newOrders == orders' \ orders
            newItems == orderItems' \ orderItems
        IN /\ carts' = carts
           /\ \E c \in carts' : c.user = u
           /\ \A i \in cartItems' : \A c \in carts' : c.user = u => i.cart # c.id
           /\ orders \subseteq orders'
           /\ orderItems \subseteq orderItems'
           /\ Cardinality(newOrders) = 1
           /\ \A o \in newOrders :
                 /\ o.id = lastOp'.ref
                 /\ o.user = u
                 /\ o.status = "pending"
                 /\ <<o.full_name, o.phone, o.address>> = lastOp'.data
                 /\ o.total_price =
                       SumOver([i \in before |-> i.quantity * product[i.product].price], before)
                 /\ \A oi \in newItems : oi.order = o.id
           /\ Cardinality(newItems) = Cardinality(before)
           /\ {<<oi.product, oi.quantity, oi.price>> : oi \in newItems}
                 = {<<i.product, i.quantity, product[i.product].price>> : i \in before} ]_vars

\* C3 witness: the user's second checkout, of a cart with two lines one of
\* which holds two units, done and the cart empty.
C3_Witness ==
    /\ lastOp.op = "create_order"
    /\ lastOp.outcome = "created"
    /\ Cardinality(orders) = 2
    /\ Cardinality({oi \in orderItems : oi.order = lastOp.ref}) = 2
    /\ \E oi \in orderItems : oi.order = lastOp.ref /\ oi.quantity = 2
    /\ RowsOfUser(lastOp.user) = {}
    /\ \E c \in carts : c.user = lastOp.user

\* C4: create_order for a user with no Cart row or with no CartItem ends in
\* EmptyCart and adds no Order (nor OrderItem), whatever the method.
C4_EmptyCartRejected ==
    [][ (lastOp'.op = "create_order" /\ RowsOfUser(lastOp'.user) = {}) =>
        (/\ lastOp'.outcome = "EmptyCart"
         /\ orders' = orders
         /\ orderItems' = orderItems) ]_vars

\* C4 witness: a POST with all three fields given, on the emptied cart of a
\* user who checked out before, turned away as EmptyCart.
C4_Witness ==
    /\ lastOp.op = "create_order"
    /\ lastOp.outcome = "EmptyCart"
    /\ lastOp.method = "POST"
    /\ lastOp.data = <<"Ann", "13800000000", "1 Main St">>
    /\ \E c \in carts : c.user = lastOp.user
    /\ orders # {}

\* ------------------------------------------------------- cart properties
AddOps == {"add_to_cart", "add_to_cart_from_detail", "quick_add_to_cart"}
\* Outcomes of an add request that reached the get_or_create of the row.
AddedOutcomes == {"added", "AttributeError"}
\* Outcomes of a request turned away before the stock check.
TurnedAway == {"not_post", "404", "405", "400", "InvalidQuantity"}

\* No two CartItem rows share (cart, product).
OneRowPerProduct ==
    \A i, j \in cartItems : (i.cart = j.cart /\ i.product = j.product) => i = j

\* The step of an add request for (u, p, q) that got as far as the row:
\* afterwards the pair has exactly one row, holding the old quantity plus q.
AddIsAdditive ==
    LET c == CartOf(carts', lastOp'.user)
        before == {i \in cartItems : i.cart = c /\ i.product = lastOp'.arg}
        after == {i \in cartItems' : i.cart = c /\ i.product = lastOp'.arg}
        old == IF before = {} THEN 0 ELSE (CHOOSE i \in before : TRUE).quantity
    IN /\ Cardinality(after) = 1
       /\ \A i \in after : i.quantity = old + lastOp'.qty

\* C7: an add for a (cart, product) that already has a row adds its quantity
\* to that row, so two adds of q1 and q2 leave one row holding q1 + q2, and
\* no reachable state has two CartItem rows for one (cart, product).
C7_AddTwiceOneRow ==
    [][ /\ OneRowPerProduct'
        /\ (lastOp'.op \in AddOps /\ lastOp'.outcome \in AddedOutcomes) => AddIsAdditive ]_vars

\* C7 witness: the second add_to_cart of a product (2 added to a row of 1).
C7_Witness ==
    /\ lastOp.op = "add_to_cart"
    /\ lastOp.outcome = "added"
    /\ lastOp.qty = 2
    /\ lastOp.ref = 3
    /\ \E i \in cartItems : i.product = lastOp.arg /\ i.quantity = 3

C9_QuantityAtLeastOne == \A i \in cartItems : i.quantity >= 1

\* The sum of quantity * product.price over the rows of cart c.
LineSum(c) ==
    SumOver([i \in ItemsOf(c) |-> i.quantity * product[i.product].price], ItemsOf(c))

\* C10: Cart.total_price() is the sum over the cart's rows of
\* quantity * product.price, and 0.00 for a cart without rows.
C10_TotalPrice ==
    \A c \in carts : /\ cart_total_price(c.id) = LineSum(c.id)
                     /\ ItemsOf(c.id) = {} => cart_total_price(c.id) = 0

\* C10 witness: the cart (100.00 x 2, 50.00 x 1), whose total is 250.00.
C10_Witness ==
    \E c \in carts :
        /\ {<<i.product, i.quantity>> : i \in ItemsOf(c.id)} = {<<1, 2>>, <<2, 1>>}
        /\ product[1].price = 10000
        /\ product[2].price = 5000
        /\ cart_total_price(c.id) = 25000

\* The sum of quantity over the rows of cart c.
UnitSum(c) == SumOver([i \in ItemsOf(c) |-> i.quantity], ItemsOf(c))

\* C11: Cart.item_count() is the sum of quantity over the cart's rows (the
\* units, not the number of lines), and 0 for a cart without rows.
C11_ItemCount ==
    \A c \in carts : /\ cart_item_count(c.id) = UnitSum(c.id)
                     /\ ItemsOf(c.id) = {} => cart_item_count(c.id) = 0

\* C11 witness: a cart of two lines holding three units.
C11_Witness ==
    \E c \in carts :
        /\ {<<i.product, i.quantity>> : i \in ItemsOf(c.id)} = {<<1, 2>>, <<2, 1>>}
        /\ cart_item_count(c.id) = 3

\* The CartItem row a well-formed update_cart_item request of the stepping
\* user addresses in the user's own cart, before the step.
Addressed == {i \in ItemsOfUser(lastOp'.user) : i.id = lastOp'.arg}

\* The step handles an AJAX POST to update_cart_item for a row of the
\* requesting user's cart.
SetsQuantityOfOwnItem ==
    /\ lastOp'.op = "update_cart_item"
    /\ lastOp'.outcome # "400"
    /\ Addressed # {}

\* C12: update_cart_item with quantity <= 0 for a row of the requester's cart
\* deletes the row: no row has its id afterwards, the cart's item_count is
\* lower by the row's quantity, and all other rows are as they were.
C12_DeleteOnZero ==
    [][ (SetsQuantityOfOwnItem /\ lastOp'.qty <= 0) =>
        \A item \in Addressed :
            /\ lastOp'.outcome = "deleted"
            /\ \A i \in cartItems' : i.id # item.id
            /\ cart_item_count(item.cart)' = cart_item_count(item.cart) - item.quantity
            /\ cartItems' = cartItems \ {item}
            /\ carts' = carts ]_vars

\* C12 witness: quantity 0 sent for a row of two units in a cart of two
\* lines; the other line is what is left.
C12_Witness ==
    /\ lastOp.op = "update_cart_item"
    /\ lastOp.outcome = "deleted"
    /\ lastOp.qty = 0
    /\ lastOp.ref = 2
    /\ \A i \in cartItems : i.id # lastOp.arg
    /\ \E c \in carts : c.user = lastOp.user /\ cart_item_count(c.id) = 1

\* C13: update_cart_item with quantity > 0 for a row of the requester's cart
\* either reports InsufficientStock (quantity above the product's stock) and
\* leaves every row as it was, or leaves the row holding exactly the
\* requested quantity and every other row as it was.
C13_SetQuantity ==
    [][ (SetsQuantityOfOwnItem /\ lastOp'.qty > 0) =>
        \A item \in Addressed :
            IF lastOp'.qty > product[item.product].stock
            THEN /\ lastOp'.outcome = "InsufficientStock"
                 /\ cartItems' = cartItems
            ELSE /\ lastOp'.outcome = "updated"
                 /\ cartItems' = (cartItems \ {item})
                                    \cup {[item EXCEPT !.quantity = lastOp'.qty]} ]_vars

\* C13 witness: quantity 1 sent for a row of product 1, and the row holds 1
\* although the product's stock of 2 would allow a sum of 2.
C13_Witness ==
    /\ lastOp.op = "update_cart_item"
    /\ lastOp.outcome = "updated"
    /\ lastOp.qty = 1
    /\ \E i \in cartItems : i.id = lastOp.arg /\ i.product = 1 /\ i.quantity = 1

\* C27: the stock of the products being constant, every CartItem's quantity
\* is at most the stock of its product.
C27_QuantityWithinStock ==
    \A i \in cartItems : Exists(i.product) => i.quantity <= product[i.product].stock

\* C28: a quick_add_to_cart request that changes the cart ends in the success
\* response (item_count, total_price and the row's quantity), never in an
\* error.
C28_QuickAddSucceeds ==
    [][ (lastOp' # lastOp /\ lastOp'.op = "quick_add_to_cart" /\ cartItems' # cartItems)
           => lastOp'.outcome = "success" ]_vars

\* ---------------------------------------------------- ownership properties
\* The rows of the CartItem table its that are not in a cart of user u, cs
\* being the Cart table.
RowsOfOthers(u, cs, its) == {i \in its : \A c \in cs : c.id = i.cart => c.user # u}

\* C14: a request of user u leaves the Cart, CartItem, Order and OrderItem
\* rows of every other user as they were, and remove_from_cart,
\* update_cart_item and update_order_status addressed to a row of another
\* user end in 404 with the whole store unchanged.
C14_OthersRowsUntouched ==
    [][ lastOp'.user \in users =>
        LET u == lastOp'.user IN
        /\ {c \in carts' : c.user # u} = {c \in carts : c.user # u}
        /\ RowsOfOthers(u, carts', cartItems') = RowsOfOthers(u, carts, cartItems)
        /\ {o \in orders' : o.user # u} = {o \in orders : o.user # u}
        /\ {oi \in orderItems' : \E o \in orders' : o.id = oi.order /\ o.user # u}
              = {oi \in orderItems : \E o \in orders : o.id = oi.order /\ o.user # u}
        /\ ( /\ lastOp'.op \in {"remove_from_cart", "update_cart_item"}
             /\ lastOp'.outcome # "400"
             /\ \E i \in RowsOfOthers(u, carts, cartItems) : i.id = lastOp'.arg )
           => (lastOp'.outcome = "404" /\ store' = store)
        /\ ( /\ lastOp'.op = "update_order_status"
             /\ \E o \in orders : o.id = lastOp'.arg /\ o.user # u )
           => (lastOp'.outcome = "404" /\ store' = store) ]_vars

\* C14 witness: user 2 asked to set the quantity of a row of user 1's cart to
\* 0 and got 404; the row is still there, and user 1 has an order as well.
C14_Witness ==
    /\ lastOp.op = "update_cart_item"
    /\ lastOp.user = 2
    /\ lastOp.qty = 0
    /\ lastOp.outcome = "404"
    /\ \E i \in ItemsOfUser(1) : i.id = lastOp.arg
    /\ \E o \in orders : o.user = 1

\* The Cart rows of user u in the Cart table cs.
CartsOfUser(cs, u) == {c \in cs : c.user = u}

\* The step's request got as far as Cart.objects.get_or_create(user).
ReachedGetOrCreate ==
    \/ lastOp'.op = "cart_detail"
    \/ lastOp'.op = "add_to_cart" /\ lastOp'.outcome \in {"InsufficientStock", "added"}
    \/ /\ lastOp'.op \in {"add_to_cart_from_detail", "quick_add_to_cart"}
       /\ lastOp'.outcome \in {"added", "AttributeError"}

C17_ClearCartFrame ==
    [][ (lastOp'.op = "clear_cart" /\ CartsOfUser(carts, lastOp'.user) # {}) =>
        LET u == lastOp'.user IN
        /\ lastOp'.outcome = "cleared"
        /\ carts' = carts
        /\ \A i \in cartItems' : \A c \in CartsOfUser(carts, u) : i.cart # c.id
        /\ RowsOfOthers(u, carts, cartItems') = RowsOfOthers(u, carts, cartItems)
        /\ orders' = orders
        /\ orderItems' = orderItems
        /\ product' = product ]_vars

\* C17 witness: user 2 cleared a cart that held a row, while user 1's cart
\* holds a row and an order exists.
C17_Witness ==
    /\ lastOp.op = "clear_cart"
    /\ lastOp.user = 2
    /\ lastOp.outcome = "cleared"
    /\ lastOp.ref >= 1
    /\ CartsOfUser(carts, 2) # {}
    /\ ItemsOfUser(2) = {}
    /\ ItemsOfUser(1) # {}
    /\ orders # {}

\* ------------------------------------------------------- order properties
OrderOps == {"create_order", "update_order_status", "admin_change_status"}

\* C30: no checkout and no change of an order's status, cancellation
\* included, changes the stock of a product or the count of an Inventory row.
C30_OrdersLeaveStock ==
    [][ (lastOp' # lastOp /\ lastOp'.op \in OrderOps) =>
        /\ DOMAIN product' = DOMAIN product
        /\ \A p \in DOMAIN product : product'[p].stock = product[p].stock
        /\ {<<r.id, r.count>> : r \in inventory'} = {<<r.id, r.count>> : r \in inventory} ]_vars

\* C30 witness: an order of two units of product 1 was cancelled in the
\* admin; the product's stock and its Inventory row still hold 2.
C30_Witness ==
    /\ lastOp.op = "admin_change_status"
    /\ lastOp.outcome = "saved"
    /\ \E o \in orders :
          /\ o.id = lastOp.arg
          /\ o.status = "cancelled"
          /\ \E oi \in orderItems : oi.order = o.id /\ oi.product = 1 /\ oi.quantity = 2
    /\ product[1].stock = 2
    /\ \E r \in inventory : r.product = 1 /\ r.count = 2

\* The OrderItem rows of order o in the OrderItem table ois.
ItemsOfOrder(ois, o) == {oi \in ois : oi.order = o}

\* C16: an Order whose checkout is over keeps its total_price, its shipping
\* fields and its user through every later step (only status may differ),
\* and keeps exactly its OrderItem rows, each with its product, price and
\* quantity.
C16_OrderImmutable ==
    [][ \A o \in orders :
            o.id # co.order =>
                /\ \E n \in orders' : n.id = o.id /\ [n EXCEPT !.status = o.status] = o
                /\ ItemsOfOrder(orderItems', o.id) = ItemsOfOrder(orderItems, o.id) ]_vars
====
